---- MODULE Spec2Model ----
(***************************************************************************)
(* aquabat: the acquisition loop of simple_scan.py (producer), the         *)
(* dump_csv_data threads it starts at every rotation, the data directory,  *)
(* and the refresh tick of main.py (get_newest_file, SyncedPlots.update,   *)
(* get_single_channel_data).                                               *)
(*                                                                         *)
(* Text is modelled as sequences of character codes (ASCII).  A window     *)
(* file is a sequence of lines, a line the text csv.writer produces for    *)
(* one row.  What a reader can see of a file that is being written grows   *)
(* field by field (the granularity at which the buffered writer's flushes  *)
(* are observed here).                                                     *)
(***************************************************************************)
EXTENDS Integers, Sequences, FiniteSets, TLC

VARIABLES
    args,            \* argparse namespace: sample_rate, file_duration, channels
    clock,           \* what time.time() returns at simple_scan.py:150
    pc,              \* position of simple_scan.main
    status,          \* local `status` of simple_scan.main
    hw,              \* the DAQ device: scan state, connection, calls received
    scan_count,      \* number of scans the hardware has transferred so far
    heap,            \* the list objects allocated for file_buffer
    file_buffer,     \* reference (index into heap) held by the acquisition loop
    aq_start_time,   \* local `aq_start_time` of simple_scan.main
    threads,         \* one record per started dump_csv_data thread
    files,           \* the data directory: file name -> lines a reader sees
    appended,        \* history: every row appended, in order
    tick,            \* state of the running SyncedPlots.update call
    rendered,        \* per consumer: what it last drew
    timer_active,    \* self.timer is running (QTimer.isActive())
    ticks,           \* number of timer timeouts so far
    raised_ticks     \* history: number of update calls an exception has left

vars == <<args, clock, pc, status, hw, scan_count, heap, file_buffer,
          aq_start_time, threads, files, appended, tick, rendered,
          timer_active, ticks, raised_ticks>>

producer_vars == <<args, clock, pc, status, hw, scan_count, heap, file_buffer,
                   aq_start_time, appended>>
consumer_vars == <<tick, rendered, timer_active, ticks, raised_ticks>>

----------------------------------------------------------------------------
(* Bounds of the model *)

\* rows the acquisition loop appends in one run
MaxRows == 4
\* rotations (dump_csv_data threads) in one run
MaxRotations == 2
\* timer timeouts delivered to SyncedPlots.update
MaxTicks == 2

\* values given for --sample-rate and --file-duration (argparse: type=int,
\* no range check)
SampleRates == {0, 1, 2}
FileDurations == {-1, 0, 1, 2}
\* values of --channels
ChannelCounts == {1, 2}
\* values of --channels with one the device, which has DeviceChannels
\* channels, does not have
AcquireChannelCounts == {1, 2, 3}
\* values time.time() returns when the acquisition starts
StartTimes == {100}
\* a value of time.time() just before the number of digits of its integer
\* part changes
RolloverStartTimes == {99}

None == <<>>

\* channels of the DAQ device (ai_info.get_num_chans_by_mode)
DeviceChannels == 2

\* what the data directory holds when the programs start
InitialDirs == {[n \in {} |-> <<>>]}

\* file names a data directory may hold when the display starts:
\* "100.0.txt", "101.0.txt", "102.0.txt", "99.0.txt", "1.txt", "19.0.txt",
\* "1000.0.txt", "100.0.csv"
Name100 == <<49, 48, 48, 46, 48, 46, 116, 120, 116>>
Name101 == <<49, 48, 49, 46, 48, 46, 116, 120, 116>>
Name102 == <<49, 48, 50, 46, 48, 46, 116, 120, 116>>
DirectoryNames ==
    {Name100, Name101, Name102,
     <<57, 57, 46, 48, 46, 116, 120, 116>>,
     <<49, 46, 116, 120, 116>>,
     <<49, 57, 46, 48, 46, 116, 120, 116>>,
     <<49, 48, 48, 48, 46, 48, 46, 116, 120, 116>>,
     <<49, 48, 48, 46, 48, 46, 99, 115, 118>>}

\* no SyncedPlots.update call is running
IdleTick == [pc |-> "idle", current_file |-> None, next |-> 0, invoked |-> <<>>]

----------------------------------------------------------------------------
(* Text *)

ChDot == 46
ChMinus == 45
ChComma == 44
ChZero == 48
ChOne == 49
ChT == 116
ChX == 120

RECURSIVE Digits(_)
\* decimal digits of a natural number, as character codes
Digits(n) ==
    IF n < 10 THEN <<ChZero + n>>
    ELSE Digits(n \div 10) \o <<ChZero + (n % 10)>>

\* str(float(t)) for a whole-numbered float of moderate size: "100.0", "-1.0"
FormatFloat(t) ==
    (IF t < 0 THEN <<ChMinus>> \o Digits(-t) ELSE Digits(t)) \o <<ChDot, ChZero>>

\* '{}.txt'.format(aq_start_time)
WindowFileName(t) == FormatFloat(t) \o <<ChDot, ChT, ChX, ChT>>

IsDigit(c) == c >= ChZero /\ c <= ChZero + 9

RECURSIVE DigitsValue(_)
DigitsValue(s) ==
    IF Len(s) = 0 THEN 0
    ELSE 10 * DigitsValue(SubSeq(s, 1, Len(s) - 1)) + (s[Len(s)] - ChZero)

\* float(text): the texts accepted here are [-]digits[.digits]; the value is
\* returned for whole numbers, anything else raises ValueError (ok = FALSE)
ParseFloat(s) ==
    LET neg   == Len(s) > 0 /\ s[1] = ChMinus
        body  == IF neg THEN SubSeq(s, 2, Len(s)) ELSE s
        dots  == {i \in 1..Len(body) : body[i] = ChDot}
        ipart == IF dots = {} THEN body
                 ELSE SubSeq(body, 1, (CHOOSE i \in dots : TRUE) - 1)
        fpart == IF dots = {} THEN <<>>
                 ELSE SubSeq(body, (CHOOSE i \in dots : TRUE) + 1, Len(body))
        wellformed ==
            /\ Cardinality(dots) <= 1
            /\ Len(ipart) + Len(fpart) > 0
            /\ \A i \in 1..Len(ipart) : IsDigit(ipart[i])
            /\ \A i \in 1..Len(fpart) : fpart[i] = ChZero
    IN  IF wellformed
        THEN [ok |-> TRUE,
              value |-> IF neg THEN -DigitsValue(ipart) ELSE DigitsValue(ipart)]
        ELSE [ok |-> FALSE, value |-> 0]

----------------------------------------------------------------------------
(* csv.writer(f, delimiter=',').writerows(clone), and what of it has       *)
(* reached the file.  The line terminator is left out of a line's text:    *)
(* readlines() splits at it and float() ignores it.                        *)

RECURSIVE JoinFields(_)
\* ','.join(fields)
JoinFields(fields) ==
    IF Len(fields) = 0 THEN <<>>
    ELSE IF Len(fields) = 1 THEN fields[1]
    ELSE fields[1] \o <<ChComma>> \o JoinFields(Tail(fields))

\* the line csv.writer writes for one row
CsvLine(row) == JoinFields([i \in 1..Len(row) |-> FormatFloat(row[i])])

\* the lines writerows writes for the rows
CsvLines(rows) == [j \in 1..Len(rows) |-> CsvLine(rows[j])]

RECURSIVE FieldCount(_)
\* number of fields writerows writes for the rows
FieldCount(rows) ==
    IF Len(rows) = 0 THEN 0 ELSE Len(rows[1]) + FieldCount(Tail(rows))

RECURSIVE FlushedLines(_, _)
\* the lines a reader sees once the first k fields of the rows have been
\* flushed to the file: whole lines, then the beginning of the next one
FlushedLines(rows, k) ==
    IF Len(rows) = 0 THEN <<>>
    ELSE IF Len(rows[1]) = 0 THEN <<CsvLine(rows[1])>> \o FlushedLines(Tail(rows), k)
    ELSE IF k <= 0 THEN <<>>
    ELSE IF k >= Len(rows[1])
         THEN <<CsvLine(rows[1])>> \o FlushedLines(Tail(rows), k - Len(rows[1]))
         ELSE <<CsvLine(SubSeq(rows[1], 1, k))>>

RECURSIVE Split(_, _)
\* line.split(sep)
Split(line, sep) ==
    LET seps == {i \in 1..Len(line) : line[i] = sep}
    IN  IF seps = {} THEN <<line>>
        ELSE LET first == CHOOSE i \in seps : \A j \in seps : i <= j
             IN  <<SubSeq(line, 1, first - 1)>>
                 \o Split(SubSeq(line, first + 1, Len(line)), sep)

RECURSIVE DecodeLines(_, _)
\* the loop of get_single_channel_data over the lines read: the floats
\* collected, or ok = FALSE when a line raises IndexError or ValueError
DecodeLines(selected_channel, lines) ==
    IF Len(lines) = 0 THEN [ok |-> TRUE, data |-> <<>>]
    ELSE LET channel_data == Split(lines[1], ChComma)
         IN  IF selected_channel + 1 > Len(channel_data)
             THEN [ok |-> FALSE, data |-> <<>>]
             ELSE LET v == ParseFloat(channel_data[selected_channel + 1])
                      rest == DecodeLines(selected_channel, Tail(lines))
                  IN  IF v.ok /\ rest.ok
                      THEN [ok |-> TRUE, data |-> <<v.value>> \o rest.data]
                      ELSE [ok |-> FALSE, data |-> <<>>]

\* get_single_channel_data indexing the column after the selected one
get_single_channel_data_NextColumn(selected_channel, filename, dir) ==
    IF filename \in DOMAIN dir
    THEN DecodeLines(selected_channel + 1, dir[filename])
    ELSE [ok |-> FALSE, data |-> <<>>]

\* get_single_channel_data(selected_channel, filename) on the directory dir
get_single_channel_data(selected_channel, filename, dir) ==
    IF filename \in DOMAIN dir
    THEN DecodeLines(selected_channel, dir[filename])
    ELSE [ok |-> FALSE, data |-> <<>>]

----------------------------------------------------------------------------
(* get_newest_file *)

\* order of str: code point by code point, a proper prefix first
LexLess(a, b) ==
    \E i \in 1..(Len(a) + 1) :
        /\ i <= Len(b)
        /\ \A j \in 1..(i - 1) : a[j] = b[j]
        /\ (i = Len(a) + 1 \/ a[i] < b[i])

\* pathlib.Path(data_dir).glob('1*.txt')
Glob(names) ==
    {n \in names :
        /\ Len(n) >= 5
        /\ n[1] = ChOne
        /\ SubSeq(n, Len(n) - 3, Len(n)) = <<ChDot, ChT, ChX, ChT>>}

RECURSIVE Sorted(_)
\* sorted(paths)
Sorted(S) ==
    IF S = {} THEN <<>>
    ELSE LET least == CHOOSE n \in S : \A m \in S \ {n} : LexLess(n, m)
         IN  <<least>> \o Sorted(S \ {least})

\* NewestIndex taking the last element, [-1], instead of [-2]
NewestIndex_Last(sorted) == Len(sorted)

\* get_newest_file's index into the sorted list, [-2]
NewestIndex(sorted) == Len(sorted) - 1

\* get_newest_file(data_dir): sorted(...)[-2], None on IndexError
get_newest_file(names) ==
    LET sorted == Sorted(Glob(names))
    IN  IF NewestIndex(sorted) >= 1 /\ NewestIndex(sorted) <= Len(sorted)
        THEN sorted[NewestIndex(sorted)]
        ELSE None

----------------------------------------------------------------------------
(* simple_scan.py: main *)

Min(a, b) == IF a <= b THEN a ELSE b

\* high_channel - low_channel + 1 after the clamp to the device's channels
channel_count == Min(args.channels - 1, hw.num_chans - 1) + 1

\* args.sample_rate * args.file_duration
samples_per_channel == args.sample_rate * args.file_duration

\* the value the hardware delivers for channel i (from 0) in its n-th scan;
\* the loop reads one new scan at every poll, so that every row is told apart
SampleValue(n, i) == n + i

\* EnoughRows with a strict comparison (rotates one row late)
EnoughRows_Strict(buffer) == Len(buffer) > args.sample_rate * args.file_duration

\* `if len(file_buffer) >= args.sample_rate * args.file_duration`
EnoughRows(buffer) == Len(buffer) >= args.sample_rate * args.file_duration

\* NextStartTime advancing by one second whatever the file duration
NextStartTime_OneSecond(t) == t + 1

\* NextStartTime without the update of line 186
NextStartTime_Same(t) == t

\* `aq_start_time += float(args.file_duration)`
NextStartTime(t) == t + args.file_duration

\* the thread object threading.Thread(target=dump_csv_data, kwargs=...).start()
\* creates; snapshot is history: the rows of the buffer at the rotation
NewThread(data, filename, rows) ==
    [data |-> data, filename |-> filename, made_copy |-> FALSE,
     pc |-> "copy", clone |-> <<>>, flushed |-> 0, snapshot |-> rows]

Init ==
    /\ args \in [sample_rate : SampleRates, file_duration : FileDurations,
                 channels : ChannelCounts]
    /\ clock \in StartTimes
    /\ pc = "startup"
    /\ status = "IDLE"
    /\ hw = [scan |-> "idle", connected |-> TRUE, released |-> FALSE,
             stop_calls |-> 0, num_chans |-> DeviceChannels]
    /\ scan_count = 0
    /\ heap = <<>>
    /\ file_buffer = 0
    /\ aq_start_time = 0
    /\ threads = <<>>
    /\ files \in InitialDirs
    /\ appended = <<>>
    /\ tick = IdleTick
    /\ rendered = [c \in {} |-> None]
    /\ timer_active = TRUE
    /\ ticks = 0
    /\ raised_ticks = 0

\* create_float_buffer raises for a negative size (lines 128); the exception
\* is no RuntimeError and leaves main through the finally clause
CreateBufferFails ==
    /\ pc = "startup"
    /\ channel_count * samples_per_channel < 0
    /\ pc' = "raised"
    /\ UNCHANGED <<args, clock, status, hw, scan_count, heap, file_buffer,
                   aq_start_time, appended, threads, files>>
    /\ UNCHANGED consumer_vars

\* ai_device.a_in_scan raises (the driver rejects the call)
AInScanFails ==
    /\ pc = "startup"
    /\ channel_count * samples_per_channel >= 0
    /\ pc' = "raised"
    /\ UNCHANGED <<args, clock, status, hw, scan_count, heap, file_buffer,
                   aq_start_time, appended, threads, files>>
    /\ UNCHANGED consumer_vars

\* ai_device.a_in_scan starts the continuous scan
AInScan ==
    /\ pc = "startup"
    /\ channel_count * samples_per_channel >= 0
    /\ hw' = [hw EXCEPT !.scan = "running"]
    /\ pc' = "started"
    /\ UNCHANGED <<args, clock, status, scan_count, heap, file_buffer,
                   aq_start_time, appended, threads, files>>
    /\ UNCHANGED consumer_vars

\* aq_start_time = time.time(); file_buffer = []
EnterLoop ==
    /\ pc = "started"
    /\ aq_start_time' = clock
    /\ heap' = Append(heap, <<>>)
    /\ file_buffer' = Len(heap) + 1
    /\ pc' = "loop"
    /\ UNCHANGED <<args, clock, status, hw, scan_count, appended, threads, files>>
    /\ UNCHANGED consumer_vars

\* one iteration of the while loop whose read of data[index + i] raises
\* IndexError: the buffer create_float_buffer allocated has no element
PollIndexError ==
    /\ pc = "loop"
    /\ channel_count * samples_per_channel = 0
    /\ channel_count > 0
    /\ status' = IF hw.scan = "running" THEN "RUNNING" ELSE "IDLE"
    /\ pc' = "raised"
    /\ UNCHANGED <<args, clock, hw, scan_count, heap, file_buffer,
                   aq_start_time, appended, threads, files>>
    /\ UNCHANGED consumer_vars

\* one iteration of the while loop: get_scan_status, read the newest scan,
\* append it, and rotate when the buffer holds enough rows
Poll ==
    /\ pc = "loop"
    /\ channel_count * samples_per_channel > 0
    /\ Len(appended) < MaxRows
    /\ LET n == scan_count + 1
           current_samples == [i \in 1..channel_count |-> SampleValue(n, i - 1)]
           buffer == Append(heap[file_buffer], current_samples)
       IN  /\ scan_count' = n
           /\ status' = IF hw.scan = "running" THEN "RUNNING" ELSE "IDLE"
           /\ heap' = [heap EXCEPT ![file_buffer] = buffer]
           /\ appended' = Append(appended, current_samples)
           /\ IF EnoughRows(buffer)
              THEN /\ Len(threads) < MaxRotations
                   /\ threads' = Append(threads,
                          NewThread(file_buffer, WindowFileName(aq_start_time),
                                    buffer))
                   /\ aq_start_time' = NextStartTime(aq_start_time)
                   /\ pc' = "wait"
              ELSE /\ UNCHANGED <<threads, aq_start_time>>
                   /\ pc' = "loop"
    /\ UNCHANGED <<args, clock, hw, file_buffer, files>>
    /\ UNCHANGED consumer_vars

\* WaitMadeCopy without the wait and with the list emptied in place
\* (`del file_buffer[:]`) instead of a new list
WaitMadeCopy_ClearInPlace ==
    /\ pc = "wait"
    /\ heap' = [heap EXCEPT ![file_buffer] = <<>>]
    /\ pc' = "loop"
    /\ UNCHANGED <<args, clock, status, hw, scan_count, file_buffer,
                   aq_start_time, appended, threads, files>>
    /\ UNCHANGED consumer_vars

\* WaitMadeCopy without `file_buffer = []`: the loop goes on with the list
\* it handed over
WaitMadeCopy_NoReset ==
    /\ pc = "wait"
    /\ threads[Len(threads)].made_copy
    /\ pc' = "loop"
    /\ UNCHANGED <<args, clock, status, hw, scan_count, heap, file_buffer,
                   aq_start_time, appended, threads, files>>
    /\ UNCHANGED consumer_vars

\* made_copy.wait() returns; file_buffer = []
WaitMadeCopy ==
    /\ pc = "wait"
    /\ threads[Len(threads)].made_copy
    /\ heap' = Append(heap, <<>>)
    /\ file_buffer' = Len(heap) + 1
    /\ pc' = "loop"
    /\ UNCHANGED <<args, clock, status, hw, scan_count, aq_start_time,
                   appended, threads, files>>
    /\ UNCHANGED consumer_vars

\* KeyboardInterrupt is raised in the main thread after the scan was started
Interrupt ==
    /\ pc \in {"started", "loop", "wait"}
    /\ pc' = "interrupted"
    /\ UNCHANGED <<args, clock, status, hw, scan_count, heap, file_buffer,
                   aq_start_time, appended, threads, files>>
    /\ UNCHANGED consumer_vars

\* the finally clause of main; main then ends: "stopped" after a
\* KeyboardInterrupt, "aborted" after another exception
Finally ==
    /\ pc \in {"interrupted", "raised"}
    /\ hw' = [hw EXCEPT
                !.scan = IF status = "RUNNING" THEN "stopped" ELSE @,
                !.stop_calls = IF status = "RUNNING" THEN @ + 1 ELSE @,
                !.connected = FALSE,
                !.released = TRUE]
    /\ pc' = IF pc = "interrupted" THEN "stopped" ELSE "aborted"
    /\ UNCHANGED <<args, clock, status, scan_count, heap, file_buffer,
                   aq_start_time, appended, threads, files>>
    /\ UNCHANGED consumer_vars

----------------------------------------------------------------------------
(* simple_scan.py: dump_csv_data, one thread per rotation *)

Threads == 1..Len(threads)

\* a thread has the file open for writing
Writing(t) == threads[t].pc = "write"

\* clone = deepcopy(data)
deepcopy(data) == heap[data]

\* DumpCopy with made_copy.set() moved before the copy, which is not taken
DumpCopy_SignalFirst(t) ==
    /\ threads[t].pc = "copy"
    /\ threads' = [threads EXCEPT ![t].made_copy = TRUE, ![t].pc = "signal"]
    /\ UNCHANGED files
    /\ UNCHANGED producer_vars
    /\ UNCHANGED consumer_vars

\* clone = deepcopy(data)
DumpCopy(t) ==
    /\ threads[t].pc = "copy"
    /\ threads' = [threads EXCEPT ![t].clone = deepcopy(threads[t].data),
                                  ![t].pc = "signal"]
    /\ UNCHANGED files
    /\ UNCHANGED producer_vars
    /\ UNCHANGED consumer_vars

\* deepcopy raises (MemoryError): the thread ends, made_copy is never set
DumpCopyFails(t) ==
    /\ threads[t].pc = "copy"
    /\ threads' = [threads EXCEPT ![t].pc = "failed_copy"]
    /\ UNCHANGED files
    /\ UNCHANGED producer_vars
    /\ UNCHANGED consumer_vars

\* made_copy.set()
DumpSignal(t) ==
    /\ threads[t].pc = "signal"
    /\ threads' = [threads EXCEPT ![t].made_copy = TRUE, ![t].pc = "open"]
    /\ UNCHANGED files
    /\ UNCHANGED producer_vars
    /\ UNCHANGED consumer_vars

\* open(str(filename), 'w+'): the file is created, or truncated if it exists
DumpOpen(t) ==
    /\ threads[t].pc = "open"
    /\ threads' = [threads EXCEPT ![t].pc = "write"]
    /\ files' = (threads[t].filename :> <<>>) @@ files
    /\ UNCHANGED producer_vars
    /\ UNCHANGED consumer_vars

\* open raises (OSError): the thread ends
DumpOpenFails(t) ==
    /\ threads[t].pc = "open"
    /\ threads' = [threads EXCEPT ![t].pc = "failed_open"]
    /\ UNCHANGED files
    /\ UNCHANGED producer_vars
    /\ UNCHANGED consumer_vars

\* csv_writer.writerows(clone) in progress: some more of the text reaches
\* the file while the file is still open
DumpFlush(t) ==
    /\ Writing(t)
    /\ \E k \in (threads[t].flushed + 1)..(FieldCount(threads[t].clone) - 1) :
        /\ threads' = [threads EXCEPT ![t].flushed = k]
        /\ files' = (threads[t].filename :> FlushedLines(threads[t].clone, k))
                    @@ files
    /\ UNCHANGED producer_vars
    /\ UNCHANGED consumer_vars

\* a write raises (OSError, disk full): the with statement closes the file
\* with what had reached it, and the thread ends
DumpWriteFails(t) ==
    /\ Writing(t)
    /\ threads' = [threads EXCEPT ![t].pc = "failed_write"]
    /\ UNCHANGED files
    /\ UNCHANGED producer_vars
    /\ UNCHANGED consumer_vars

\* writerows has written every row and the with statement closes the file
DumpClose(t) ==
    /\ Writing(t)
    /\ threads' = [threads EXCEPT ![t].pc = "closed",
                                  ![t].flushed = FieldCount(threads[t].clone)]
    /\ files' = (threads[t].filename :> CsvLines(threads[t].clone)) @@ files
    /\ UNCHANGED producer_vars
    /\ UNCHANGED consumer_vars

----------------------------------------------------------------------------
(* main.py: SyncedPlots.update and the widgets.  The widgets are taken as  *)
(* constructed with the --channels value of the acquisition; what a widget *)
(* draws is kept as the file and the data it was given.                    *)

\* --t-series-samples
num_samples == 1000

\* the registered consumers: widgets[0..channels-1], then t_series_widget
Widgets == 1..args.channels
TSeries == args.channels + 1
Consumers == Widgets \cup {TSeries}

\* MultiChannelVoltageTSeriesPlot.channels: list(range(args.channels - 1))
TSeriesChannels == [i \in 1..(args.channels - 1) |-> i - 1]

\* SingleChannelPlot.get_data of widget c
WidgetData(c, current_file) == get_single_channel_data(c - 1, current_file, files)

\* MultiChannelVoltageTSeriesPlot.get_data: one truncated series per channel
TSeriesData(current_file) ==
    LET each == [i \in 1..Len(TSeriesChannels) |->
                    get_single_channel_data(TSeriesChannels[i], current_file, files)]
    IN  IF \A i \in 1..Len(each) : each[i].ok
        THEN [ok |-> TRUE,
              data |-> [i \in 1..Len(each) |->
                           SubSeq(each[i].data, 1, Min(num_samples, Len(each[i].data)))]]
        ELSE [ok |-> FALSE, data |-> <<>>]

\* consumer c's update(current_file=...): get_data, and draw `if data`
ConsumerData(c, current_file) ==
    IF c = TSeries THEN TSeriesData(current_file) ELSE WidgetData(c, current_file)

\* TickResolve without `if current_file:`: the consumers are called with
\* whatever get_newest_file returned
TickResolve_NoCheck ==
    /\ timer_active
    /\ tick.pc \in {"idle", "raised"}
    /\ ticks < MaxTicks
    /\ ticks' = ticks + 1
    /\ tick' = [pc |-> "dispatch", current_file |-> get_newest_file(DOMAIN files),
                next |-> 1, invoked |-> <<>>]
    /\ UNCHANGED <<rendered, timer_active, raised_ticks>>
    /\ UNCHANGED <<threads, files>>
    /\ UNCHANGED producer_vars

\* the running timer fires while no update call is in progress:
\* current_file = get_newest_file(self.data_dir)
TickResolve ==
    /\ timer_active
    /\ tick.pc \in {"idle", "raised"}
    /\ ticks < MaxTicks
    /\ ticks' = ticks + 1
    /\ LET current_file == get_newest_file(DOMAIN files)
       IN  IF current_file # None
           THEN tick' = [pc |-> "dispatch", current_file |-> current_file,
                         next |-> 1, invoked |-> <<>>]
           ELSE tick' = IdleTick
    /\ UNCHANGED <<rendered, timer_active, raised_ticks>>
    /\ UNCHANGED <<threads, files>>
    /\ UNCHANGED producer_vars

\* the next consumer's update(current_file=current_file) returns
TickDispatch ==
    /\ tick.pc = "dispatch"
    /\ LET c == tick.next
           got == ConsumerData(c, tick.current_file)
       IN  /\ got.ok
           /\ rendered' = IF got.data # <<>>
                          THEN (c :> [file |-> tick.current_file, data |-> got.data])
                               @@ rendered
                          ELSE rendered
           /\ tick' = IF c = TSeries
                      THEN [IdleTick EXCEPT !.invoked =
                                Append(tick.invoked, <<c, tick.current_file>>)]
                      ELSE [tick EXCEPT !.next = c + 1,
                                        !.invoked = Append(@, <<c, tick.current_file>>)]
    /\ UNCHANGED <<timer_active, ticks, raised_ticks>>
    /\ UNCHANGED <<threads, files>>
    /\ UNCHANGED producer_vars

\* TickDispatchRaises with an exception that ends the timer
TickDispatchRaises_StopsTimer ==
    /\ tick.pc = "dispatch"
    /\ LET c == tick.next
           got == ConsumerData(c, tick.current_file)
       IN  /\ ~got.ok
           /\ tick' = [IdleTick EXCEPT !.invoked =
                          Append(tick.invoked, <<c, tick.current_file>>),
                                       !.pc = "raised"]
    /\ raised_ticks' = raised_ticks + 1
    /\ timer_active' = FALSE
    /\ UNCHANGED <<rendered, ticks>>
    /\ UNCHANGED <<threads, files>>
    /\ UNCHANGED producer_vars

\* the next consumer's update raises (IndexError or ValueError from
\* get_single_channel_data): the exception leaves SyncedPlots.update and the
\* slot; it is reported and the timer keeps running
TickDispatchRaises ==
    /\ tick.pc = "dispatch"
    /\ LET c == tick.next
           got == ConsumerData(c, tick.current_file)
       IN  /\ ~got.ok
           /\ tick' = [IdleTick EXCEPT !.invoked =
                          Append(tick.invoked, <<c, tick.current_file>>),
                                       !.pc = "raised"]
    /\ raised_ticks' = raised_ticks + 1
    /\ UNCHANGED <<rendered, timer_active, ticks>>
    /\ UNCHANGED <<threads, files>>
    /\ UNCHANGED producer_vars

----------------------------------------------------------------------------

Next ==
    \/ CreateBufferFails
    \/ AInScanFails
    \/ AInScan
    \/ EnterLoop
    \/ PollIndexError
    \/ Poll
    \/ WaitMadeCopy
    \/ Interrupt
    \/ Finally
    \/ \E t \in Threads : DumpCopy(t)
    \/ \E t \in Threads : DumpCopyFails(t)
    \/ \E t \in Threads : DumpSignal(t)
    \/ \E t \in Threads : DumpOpen(t)
    \/ \E t \in Threads : DumpOpenFails(t)
    \/ \E t \in Threads : DumpFlush(t)
    \/ \E t \in Threads : DumpWriteFails(t)
    \/ \E t \in Threads : DumpClose(t)
    \/ TickResolve
    \/ TickDispatch
    \/ TickDispatchRaises

Spec == Init /\ [][Next]_vars

----------------------------------------------------------------------------
(* The display alone, started on a directory that already holds files *)

SelectInit ==
    /\ args = [sample_rate |-> 1, file_duration |-> 1, channels |-> 2]
    /\ clock \in StartTimes
    /\ pc = "startup"
    /\ status = "IDLE"
    /\ hw = [scan |-> "idle", connected |-> TRUE, released |-> FALSE,
             stop_calls |-> 0, num_chans |-> DeviceChannels]
    /\ scan_count = 0
    /\ heap = <<>>
    /\ file_buffer = 0
    /\ aq_start_time = 0
    /\ threads = <<>>
    /\ files \in {[n \in S |-> <<>>] : S \in SUBSET DirectoryNames}
    /\ appended = <<>>
    /\ tick = IdleTick
    /\ rendered = [c \in {} |-> None]
    /\ timer_active = TRUE
    /\ ticks = 0
    /\ raised_ticks = 0

SelectNext == TickResolve

SpecSelect == SelectInit /\ [][SelectNext]_vars

----------------------------------------------------------------------------
(* The acquisition alone, started just before the clock's integer part gets *)
(* one more digit, also with more channels than the device has              *)

AcquireInit ==
    /\ args \in [sample_rate : SampleRates, file_duration : FileDurations,
                 channels : AcquireChannelCounts]
    /\ clock \in RolloverStartTimes
    /\ pc = "startup"
    /\ status = "IDLE"
    /\ hw = [scan |-> "idle", connected |-> TRUE, released |-> FALSE,
             stop_calls |-> 0, num_chans |-> DeviceChannels]
    /\ scan_count = 0
    /\ heap = <<>>
    /\ file_buffer = 0
    /\ aq_start_time = 0
    /\ threads = <<>>
    /\ files \in InitialDirs
    /\ appended = <<>>
    /\ tick = IdleTick
    /\ rendered = [c \in {} |-> None]
    /\ timer_active = TRUE
    /\ ticks = 0
    /\ raised_ticks = 0

AcquireNext ==
    \/ CreateBufferFails
    \/ AInScanFails
    \/ AInScan
    \/ EnterLoop
    \/ PollIndexError
    \/ Poll
    \/ WaitMadeCopy
    \/ Interrupt
    \/ Finally
    \/ \E t \in Threads : DumpCopy(t)
    \/ \E t \in Threads : DumpCopyFails(t)
    \/ \E t \in Threads : DumpSignal(t)
    \/ \E t \in Threads : DumpOpen(t)
    \/ \E t \in Threads : DumpOpenFails(t)
    \/ \E t \in Threads : DumpFlush(t)
    \/ \E t \in Threads : DumpWriteFails(t)
    \/ \E t \in Threads : DumpClose(t)

SpecAcquire == AcquireInit /\ [][AcquireNext]_vars

----------------------------------------------------------------------------
(* Properties *)

\* the thread of window file f has written all its rows and closed it
CompleteFile(f) ==
    \E t \in Threads :
        /\ threads[t].filename = f
        /\ threads[t].pc = "closed"
        /\ files[f] = CsvLines(threads[t].snapshot)

\* a thread ended with an exception
Failed(t) == threads[t].pc \in {"failed_copy", "failed_open", "failed_write"}

\* C1: in every reachable state the file get_newest_file returns is complete:
\* its dump_csv_data thread has written all rows and closed it.
C1_SelectedFileIsComplete ==
    LET f == get_newest_file(DOMAIN files)
    IN  f # None => CompleteFile(f)

\* C2: the rows a dump_csv_data thread holds (its argument before the copy,
\* its clone after it) and the rows it has written are the rows of the buffer
\* at the rotation, whatever the loop appends or resets afterwards.
C2_SnapshotIsolated ==
    \A t \in Threads :
        LET th == threads[t]
        IN  /\ heap[th.data] = th.snapshot
            /\ th.pc \notin {"copy", "failed_copy"} => th.clone = th.snapshot
            /\ th.pc \in {"write", "failed_write"}
                  => files[th.filename] = FlushedLines(th.snapshot, th.flushed)
            /\ th.pc = "closed" => files[th.filename] = CsvLines(th.snapshot)

\* C2 witness: a window is persisted and the loop has appended to its new
\* buffer since
C2_Witness ==
    \E t \in Threads :
        /\ threads[t].pc = "closed"
        /\ file_buffer # threads[t].data
        /\ Len(heap[file_buffer]) >= 1

\* C3: a persistence thread that ended with an error never leaves the
\* acquisition loop unable to go on: the loop is not waiting for a signal
\* that thread did not raise.
C3_FailedTaskNeverStallsLoop ==
    \A t \in Threads :
        Failed(t) => ~(pc = "wait" /\ t = Len(threads) /\ ~threads[t].made_copy)

\* C4: with R*D >= 1 the number of rotations is the number of appended rows
\* divided by R*D, every snapshot has R*D rows and every completed window
\* file has R*D lines.
C4_RotationEveryRDRows ==
    samples_per_channel >= 1 =>
        /\ Len(threads) = Len(appended) \div samples_per_channel
        /\ \A t \in Threads :
            /\ Len(threads[t].snapshot) = samples_per_channel
            /\ threads[t].pc = "closed"
                  => Len(files[threads[t].filename]) = samples_per_channel

\* C4 witness: windows of two rows, two rotations, one window file completed
C4_Witness ==
    /\ samples_per_channel = 2
    /\ Len(threads) = 2
    /\ \E t \in Threads : threads[t].pc = "closed"

\* C5: after get_newest_file ran on a directory with at least two matching
\* files, the file returned is the matching file with exactly one matching
\* file after it in sort order; for 100.0.txt, 101.0.txt, 102.0.txt it is
\* 101.0.txt.
C5_SecondNewest ==
    LET m == Glob(DOMAIN files)
    IN  (ticks >= 1 /\ Cardinality(m) >= 2) =>
            /\ tick.pc = "dispatch"
            /\ tick.current_file \in m
            /\ Cardinality({g \in m : LexLess(tick.current_file, g)}) = 1
            /\ (m = {Name100, Name101, Name102} => tick.current_file = Name101)

\* C5 witness: the directory of the example, resolved to 101.0.txt
C5_Witness ==
    /\ ticks = 1
    /\ Glob(DOMAIN files) = {Name100, Name101, Name102}
    /\ tick.current_file = Name101

\* C6: after get_newest_file ran on a directory with zero or one matching
\* file, it returned None: no file is dispatched, the single file is not.
C6_NoneBelowTwoFiles ==
    (ticks >= 1 /\ Cardinality(Glob(DOMAIN files)) <= 1) =>
        /\ tick.pc = "idle"
        /\ tick.current_file = None

\* C6 witness: one matching file among several files, and None returned
C6_Witness ==
    /\ ticks = 1
    /\ Cardinality(Glob(DOMAIN files)) = 1
    /\ Cardinality(DOMAIN files) >= 2
    /\ tick.current_file = None

\* C7: an update call that resolved a file and is over has invoked every
\* registered consumer, each with the file resolved.
C7_EveryConsumerInvoked ==
    (tick.pc \in {"idle", "raised"} /\ tick.invoked # <<>>) =>
        {tick.invoked[i] : i \in 1..Len(tick.invoked)}
            = {<<c, tick.invoked[1][2]>> : c \in Consumers}

\* C8: a window file that is complete is not changed by any step, and no
\* thread has it open for writing afterwards.
C8_ClosedFileNeverRewritten ==
    [][\A t \in Threads :
          threads[t].pc = "closed" =>
              /\ files'[threads[t].filename] = files[threads[t].filename]
              /\ \A u \in 1..Len(threads') :
                    u # t => ~(/\ threads'[u].filename = threads[t].filename
                               /\ threads'[u].pc = "write")]_vars

\* C8 witness: a window file is complete and a later rotation's thread has
\* opened its own file
C8_Witness ==
    \E t, u \in Threads :
        /\ t < u
        /\ threads[t].pc = "closed"
        /\ threads[u].pc \in {"write", "closed"}

\* a line of the file has fewer fields than there are channels
ShortRow(lines) ==
    \E i \in 1..Len(lines) : Len(Split(lines[i], ChComma)) < args.channels

\* C9: no consumer shows data drawn from a file that holds a row with fewer
\* fields than the channel count.
C9_MalformedFileNeverRendered ==
    \A c \in DOMAIN rendered : ~ShortRow(files[rendered[c].file])

\* C10: once main has ended after a KeyboardInterrupt that arrived after the
\* scan was started, scan_stop was called and the device is disconnected and
\* released.
C10_InterruptStopsScan ==
    pc = "stopped" =>
        /\ hw.stop_calls = 1
        /\ hw.scan = "stopped"
        /\ ~hw.connected
        /\ hw.released

\* C11: when the sample rate or the window duration is not positive, or more
\* channels are asked for than the device has, the scan is never started and
\* the acquisition loop is never entered.
C11_InvalidConfigurationAborts ==
    (\/ args.sample_rate <= 0
     \/ args.file_duration <= 0
     \/ args.channels > hw.num_chans)
        => /\ hw.scan = "idle"
           /\ heap = <<>>

C13_SignalAfterCopyBeforeWrite ==
    /\ [](\A t \in Threads :
            LET th == threads[t]
            IN  /\ th.made_copy <=> th.pc \notin {"copy", "signal", "failed_copy"}
                /\ th.made_copy => th.clone = th.snapshot
                /\ ~th.made_copy => th.filename \notin DOMAIN files)
    /\ [](pc = "wait" =>
            /\ file_buffer = threads[Len(threads)].data
            /\ heap[file_buffer] = threads[Len(threads)].snapshot)
    /\ [][(threads # <<>> /\ ~threads[Len(threads)].made_copy) =>
             /\ heap' = heap
             /\ file_buffer' = file_buffer
             /\ appended' = appended]_vars

\* C13 witness: the loop has appended a row of the next window to its new list
\* while the thread of the previous window is still writing its file
C13_Witness ==
    /\ pc = "loop"
    /\ threads # <<>>
    /\ Len(heap[file_buffer]) >= 1
    /\ threads[Len(threads)].pc = "write"
    /\ threads[Len(threads)].data # file_buffer

RECURSIVE HandedOver(_)
\* the rows of the lists handed to the first n threads, in rotation order
HandedOver(n) ==
    IF n = 0 THEN <<>> ELSE HandedOver(n - 1) \o heap[threads[n].data]

\* the rows of the loop's current list, not counting a list that was handed
\* to a thread
CurrentBuffer ==
    IF file_buffer = 0 \/ \E t \in Threads : threads[t].data = file_buffer
    THEN <<>>
    ELSE heap[file_buffer]

\* C14: the rows of all lists handed to dump_csv_data threads, in rotation
\* order, followed by the rows of the current buffer are exactly the rows the
\* loop appended, in order.
C14_NoRowLostOrDuplicated ==
    HandedOver(Len(threads)) \o CurrentBuffer = appended

\* C14 witness: after a rotation of a window of several rows the loop has
\* appended to its new list
C14_Witness ==
    /\ threads # <<>>
    /\ Len(threads[1].snapshot) >= 2
    /\ Len(CurrentBuffer) >= 1

\* the start time a window file's name states
NamedStartTime(filename) == ParseFloat(SubSeq(filename, 1, Len(filename) - 4))

\* C15: the k-th rotation (from 0) names its file with the start time of the
\* acquisition plus k times the file duration, the names of consecutive
\* rotations state times that differ by the file duration, and the loop's
\* aq_start_time is the start time of the window being filled.
C15_StartTimeAdvancesByDuration ==
    /\ \A t \in Threads :
          /\ threads[t].filename
                = WindowFileName(clock + (t - 1) * args.file_duration)
          /\ NamedStartTime(threads[t].filename).ok
          /\ t > 1 => NamedStartTime(threads[t].filename).value
                        - NamedStartTime(threads[t - 1].filename).value
                      = args.file_duration
    /\ pc \in {"loop", "wait"}
          => aq_start_time = clock + Len(threads) * args.file_duration

\* C15 witness: two rotations with a file duration of two seconds
C15_Witness ==
    /\ Len(threads) = 2
    /\ args.file_duration = 2

\* C16: of two window files the acquisition loop has named, the one of the
\* earlier rotation (the earlier start time) comes first in the order in
\* which get_newest_file sorts the names.
C16_NameOrderIsTimeOrder ==
    \A t, u \in Threads :
        (t < u /\ NamedStartTime(threads[t].filename).value
                    < NamedStartTime(threads[u].filename).value)
            => LexLess(threads[t].filename, threads[u].filename)

\* column i (from 0) of the rows
Column(rows, i) == [j \in 1..Len(rows) |-> rows[j][i + 1]]

\* rows with negative, zero and several-digit values, written and decoded
\* without a directory in between
RoundTripOfValues ==
    \A row \in [1..2 -> {-10, 0, 7}] \cup [1..1 -> {-10, 0, 7}] :
        \A i \in 0..(Len(row) - 1) :
            DecodeLines(i, CsvLines(<<row, row>>))
                = [ok |-> TRUE, data |-> <<row[i + 1], row[i + 1]>>]

\* C17: for every thread that has written and closed its file and every
\* channel i of its rows, get_single_channel_data on the file returns the
\* values of channel i of the rows of the snapshot, one per row and in order.
C17_WriteDecodeRoundTrip ==
    /\ RoundTripOfValues
    /\ \A t \in Threads :
          threads[t].pc = "closed" =>
              \A i \in 0..(channel_count - 1) :
                  get_single_channel_data(i, threads[t].filename, files)
                      = [ok |-> TRUE, data |-> Column(threads[t].snapshot, i)]

\* C17 witness: a completed file of two rows of two channels
C17_Witness ==
    \E t \in Threads :
        /\ threads[t].pc = "closed"
        /\ Len(threads[t].snapshot) = 2
        /\ Len(threads[t].snapshot[1]) = 2

\* len(file_buffer); 0 before the loop has bound file_buffer
BufferLength == IF file_buffer = 0 THEN 0 ELSE Len(heap[file_buffer])

\* C18: a step that appends a row makes the buffer one row longer and keeps
\* the list; any other change of the buffer is the reset to a new empty list,
\* which happens only while the loop is at the wait of a rotation whose thread
\* has set made_copy, when no started thread is still before its copy.
C18_BufferGrowsByOneAndResetsAfterHandoff ==
    [][/\ appended' # appended =>
             /\ Len(appended') = Len(appended) + 1
             /\ BufferLength' = BufferLength + 1
             /\ file_buffer' = file_buffer
       /\ (appended' = appended
             /\ (BufferLength' # BufferLength
                    \/ (file_buffer # 0 /\ file_buffer' # file_buffer))) =>
             /\ BufferLength' = 0
             /\ pc = "wait"
             /\ threads[Len(threads)].made_copy
             /\ \A t \in Threads : threads[t].pc # "copy"]_vars

\* C18 witness: a buffer that grew to two rows was handed over and the loop
\* holds a new, empty list
C18_Witness ==
    /\ pc = "loop"
    /\ threads # <<>>
    /\ Len(threads[Len(threads)].snapshot) = 2
    /\ BufferLength = 0
    /\ file_buffer # threads[Len(threads)].data

\* C19: a timeout at which get_newest_file returns None ends the update call
\* with no consumer invoked and nothing drawn; consumers are only invoked,
\* and what they drew only changes, in an update call that resolved a file,
\* and with that file.
C19_NoFileNoConsumerInvoked ==
    /\ [](tick.pc = "dispatch" =>
            /\ tick.current_file # None
            /\ \A i \in 1..Len(tick.invoked) :
                  tick.invoked[i][2] = tick.current_file)
    /\ [][/\ (ticks' # ticks /\ get_newest_file(DOMAIN files) = None) =>
                (tick' = IdleTick /\ rendered' = rendered)
          /\ (rendered' # rendered \/ Len(tick'.invoked) > Len(tick.invoked)) =>
                /\ tick.pc = "dispatch"
                /\ ticks' = ticks
                /\ tick'.invoked[Len(tick'.invoked)][2] = tick.current_file
                /\ \A c \in DOMAIN rendered' :
                      (c \notin DOMAIN rendered \/ rendered'[c] # rendered[c])
                          => rendered'[c].file = tick.current_file]_vars

\* C19 witness: a timeout was delivered while the directory held a single
\* window file; the update call is over and has invoked no consumer
C19_Witness ==
    /\ ticks >= 1
    /\ tick = IdleTick
    /\ rendered = [c \in {} |-> None]
    /\ raised_ticks = 0
    /\ Cardinality(DOMAIN files) = 1

\* C20: whenever the loop is at made_copy.wait(), the thread of this rotation
\* has set made_copy or is still on its way to setting it, so that the wait
\* can return.
C20_WaitCanAlwaysReturn ==
    pc = "wait" =>
        \/ threads[Len(threads)].made_copy
        \/ threads[Len(threads)].pc \in {"copy", "signal"}

\* the window files that are created and still open for writing
IncompleteFiles == {threads[t].filename : t \in {u \in Threads : Writing(u)}}

\* C21: at most one window file is created but not yet written and closed,
\* and it is the file of the newest rotation: when the thread of a rotation
\* has created its file, the threads of all earlier rotations are no longer
\* writing theirs.
C21_AtMostOneIncompleteFile ==
    /\ Cardinality(IncompleteFiles) <= 1
    /\ \A t, u \in Threads :
          (t < u /\ threads[u].pc \in {"write", "closed", "failed_write"})
              => ~Writing(t)

====
